---- MODULE Spec2Model ----
(***************************************************************************)
(* A model of the mutolaa reading tracker: the REST API of src/api.py over *)
(* its three tables, the date helpers, and the Telegram command handlers   *)
(* of src/bot.py that call the API, and the two jobs src/bot.py schedules  *)
(* every minute: send_reminders and send_announcements.                    *)
(*                                                                         *)
(* Dates are proleptic Gregorian ordinals as datetime.date.toordinal()     *)
(* gives them (1 = 0001-01-01).  A text argument is a record               *)
(* [sep, parts]: the digit groups of the text and the character between    *)
(* them, so "05.01.2026" is [sep |-> ".", parts |-> <<5, 1, 2026>>], "50"  *)
(* is [sep |-> "", parts |-> <<50>>] and "abc" is [sep |-> "?",            *)
(* parts |-> <<>>].  Day and month groups are written with two digits and  *)
(* years with their own digits.                                            *)
(***************************************************************************)
EXTENDS Integers, Sequences, FiniteSets, Bags, TLC

VARIABLES
    users,          \* table users: users[i] is the row with id = i
    logs,           \* table reading_logs: a bag of [user_id, date, pages]
    announcements,  \* table announcements: announcements[i] has id = i
    today,          \* the wall clock's date, datetime.now().date()
    api_calls,      \* the API requests of the last operation, with their status
    cmd,            \* the last Telegram update handled: [name, user, args]
    reply,          \* the text the bot answered it with
    keyboards,      \* the confirmation prompts shown and not yet answered
    board,          \* the last leaderboard request and its response
    probe,          \* the last call of a date helper and its result
    minute,         \* the wall clock's time of day, in minutes since 00:00
    report,         \* the last weekly report response
    due,            \* the last need-reminder check: when, and who it returned
    diary,          \* what the reminder job did so far on the day of today
    job,            \* where send_announcements stands in its run, and of
                    \* the running or last run: the announcements marked
                    \* sent when it began, the users it fetched for each
    outbox,         \* the Telegram sends of the running or last job run
    dash,           \* the last response of stats, month report or activity
    delivered,      \* the announcement sends that arrived, of all runs: a
                    \* bag of [ann, chat], kept where arrivals are counted
    parked,         \* a second send_announcements run and its sends, while
                    \* the event loop runs the other one
    inflight        \* the log requests that have read and not yet committed

vars == <<users, logs, announcements, today, api_calls, cmd, reply, keyboards,
          board, probe, minute, report, due, diary, job, outbox, dash,
          delivered, parked, inflight>>
later == <<dash, delivered, parked, inflight>>
rest == <<minute, report, due, diary, job, outbox, dash, delivered, parked,
          inflight>>
store == <<users, logs, announcements>>

-----------------------------------------------------------------------------
(* The calendar of datetime.date.                                          *)

IsLeap(y) == y % 4 = 0 /\ (y % 100 # 0 \/ y % 400 = 0)

DaysInMonth(y, m) ==
    IF m = 2 THEN (IF IsLeap(y) THEN 29 ELSE 28)
    ELSE IF m \in {4, 6, 9, 11} THEN 30 ELSE 31

DaysBeforeYear(y) ==
    LET p == y - 1 IN p * 365 + (p \div 4) - (p \div 100) + (p \div 400)

\* The days of the year before month m (datetime's _days_before_month).
DaysBeforeMonth(y, m) ==
    <<0, 31, 59, 90, 120, 151, 181, 212, 243, 273, 304, 334>>[m]
    + (IF m > 2 /\ IsLeap(y) THEN 1 ELSE 0)

\* date(y, m, d).toordinal()
Ymd2Ord(y, m, d) == DaysBeforeYear(y) + DaysBeforeMonth(y, m) + d

\* date.fromordinal(n) as [y, m, d] (datetime's _ord2ymd): the 400-, 100-,
\* 4- and 1-year cycles, then the month from an estimate corrected downwards.
Ord2Ymd(n) ==
    LET n0 == n - 1
        n400 == n0 \div 146097
        r400 == n0 % 146097
        n100 == r400 \div 36524
        r100 == r400 % 36524
        n4 == r100 \div 1461
        r4 == r100 % 1461
        n1 == r4 \div 365
        r1 == r4 % 365
        year == n400 * 400 + 1 + n100 * 100 + n4 * 4 + n1
        est == (r1 + 50) \div 32
        month == IF DaysBeforeMonth(year, est) > r1 THEN est - 1 ELSE est
    IN IF n1 = 4 \/ n100 = 4
       THEN [y |-> year - 1, m |-> 12, d |-> 31]
       ELSE [y |-> year, m |-> month,
             d |-> r1 - DaysBeforeMonth(year, month) + 1]

\* date.weekday(): Monday = 0 .. Sunday = 6
weekday(n) == (n + 6) % 7

\* dt.replace(day = k)
ReplaceDay(n, k) == LET c == Ord2Ymd(n) IN Ymd2Ord(c.y, c.m, k)

-----------------------------------------------------------------------------
(* Text arguments and their conversions.                                   *)

Tok(sep, parts) == [sep |-> sep, parts |-> parts]

\* The value standing for a raised ValueError / a failed validation.
NoDate == 0

\* int(s): one digit group (with an optional sign) and nothing else.
IsIntText(s) == s.sep = "" /\ Len(s.parts) = 1
IntOf(s) == s.parts[1]

DateFormats == <<"%d.%m.%Y", "%Y-%m-%d", "%d/%m/%Y">>

FmtSep(fmt) ==
    IF fmt = "%d.%m.%Y" THEN "." ELSE IF fmt = "%Y-%m-%d" THEN "-" ELSE "/"

\* The field of the date that the i-th digit group of the format holds.
FmtYear(fmt, p) == IF fmt = "%Y-%m-%d" THEN p[1] ELSE p[3]
FmtMonth(fmt, p) == p[2]
FmtDay(fmt, p) == IF fmt = "%Y-%m-%d" THEN p[3] ELSE p[1]

\* datetime.strptime(s, fmt).date(), NoDate for ValueError.  %Y takes exactly
\* four digits, %m and %d one or two, and the day must exist in the month.
strptime(s, fmt) ==
    IF s.sep = FmtSep(fmt) /\ Len(s.parts) = 3
    THEN LET y == FmtYear(fmt, s.parts)
             m == FmtMonth(fmt, s.parts)
             d == FmtDay(fmt, s.parts)
         IN IF /\ y \in 1000..9999
               /\ m \in 1..12
               /\ d >= 1
               /\ d <= DaysInMonth(y, m)
            THEN Ymd2Ord(y, m, d)
            ELSE NoDate
    ELSE NoDate

\* date.strftime(fmt) for the three formats above; isoformat() starts alike.
strftime(n, fmt) ==
    LET c == Ord2Ymd(n)
    IN Tok(FmtSep(fmt),
           IF fmt = "%Y-%m-%d" THEN <<c.y, c.m, c.d>> ELSE <<c.d, c.m, c.y>>)

RECURSIVE parse_date_from(_, _)
parse_date_from(date_str, i) ==
    IF i > Len(DateFormats) THEN NoDate
    ELSE LET r == strptime(date_str, DateFormats[i])
         IN IF r # NoDate THEN r ELSE parse_date_from(date_str, i + 1)

\* bot.parse_date: the first format that parses, NoDate when it raises.
parse_date(date_str) == parse_date_from(date_str, 1)

-----------------------------------------------------------------------------
(* Date windows.                                                           *)

\* A mutant: 30 days on from the first of the month instead of 32.
get_month_range_add_30(dt) ==
    LET start == ReplaceDay(dt, 1)
        next_month == ReplaceDay(start + 30, 1)
        end == next_month - 1
    IN [start |-> start, end |-> end]

get_month_range(dt) ==
    LET start == ReplaceDay(dt, 1)
        next_month == ReplaceDay(start + 32, 1)
        end == next_month - 1
    IN [start |-> start, end |-> end]

\* A mutant: the week is counted from Sunday (weekday 6).
get_week_from_sunday(dt) ==
    LET delta_to_saturday == (weekday(dt) - 6) % 7
        start == dt - delta_to_saturday
        end == start + 6
    IN [start |-> start, end |-> end]

get_week_saturday_to_friday(dt) ==
    LET delta_to_saturday == (weekday(dt) - 5) % 7
        start == dt - delta_to_saturday
        end == start + 6
    IN [start |-> start, end |-> end]

-----------------------------------------------------------------------------
(* The store and the API's handlers.  A handler is an operator from the    *)
(* store st = [users, logs, announcements] and the request to the set of   *)
(* outcomes [status, st] it can end with: the HTTP status and the store    *)
(* after the handler's commit (the store as it was when it raised).         *)

NULL == 0

Store == [users |-> users, logs |-> logs, announcements |-> announcements]

Outcome(status, st) == [status |-> status, st |-> st]

\* User(telegram_id = ..., first_name = ...) with the column defaults.
NewUser(telegram_id, first_name) ==
    [telegram_id |-> telegram_id, first_name |-> first_name,
     status |-> "active", reminder_time |-> "20:00",
     total_pages |-> 0, books_completed |-> 0]

\* db.query(User).filter(User.telegram_id == telegram_id).first(): the id of
\* the row, 0 for None.  telegram_id is unique.
UserByTelegram(st, telegram_id) ==
    LET hit == {i \in 1..Len(st.users) : st.users[i].telegram_id = telegram_id}
    IN IF hit = {} THEN 0 ELSE CHOOSE i \in hit : TRUE

\* The rows .filter(ReadingLog.user_id == user.id,
\*                  func.date(ReadingLog.date) == log_date) selects.
LogsOn(st, user_id, log_date) ==
    {l \in BagToSet(st.logs) : l.user_id = user_id /\ l.date = log_date}

create_user(st, telegram_id, first_name) ==
    IF UserByTelegram(st, telegram_id) # 0
    THEN {Outcome(200, st)}
    ELSE {Outcome(200,
            [st EXCEPT !.users = Append(@, NewUser(telegram_id, first_name))])}

\* The body's date is text; ReadingLogCreate's validation answers 422 before the
\* handler runs when it is no date.
create_reading_log(st, date, log_pages, telegram_id) ==
    LET user == UserByTelegram(st, telegram_id)
        log_date == strptime(date, "%Y-%m-%d")
        new_log == [user_id |-> user, date |-> log_date, pages |-> log_pages]
    IN IF log_date = NoDate THEN {Outcome(422, st)}
       ELSE IF user = 0 THEN {Outcome(404, st)}
       ELSE {Outcome(200,
               [st EXCEPT !.logs = @ (+) SetToBag({new_log}),
                          !.users[user].total_pages = @ + log_pages])}

\* A mutant: the old page count is not taken off the total.
update_reading_log_no_subtract(st, date, update_pages, telegram_id) ==
    LET user == UserByTelegram(st, telegram_id)
        log_date == strptime(date, "%Y-%m-%d")
    IN IF user = 0 THEN {Outcome(404, st)}
       ELSE IF log_date = NoDate THEN {Outcome(500, st)}
       ELSE IF LogsOn(st, user, log_date) = {} THEN {Outcome(404, st)}
       ELSE {Outcome(200,
               [st EXCEPT
                  !.users[user].total_pages = @ + update_pages,
                  !.logs = (@ (-) SetToBag({log}))
                           (+) SetToBag({[log EXCEPT !.pages = update_pages]})])
             : log \in LogsOn(st, user, log_date)}

update_reading_log(st, date, update_pages, telegram_id) ==
    LET user == UserByTelegram(st, telegram_id)
        log_date == strptime(date, "%Y-%m-%d")
    IN IF user = 0 THEN {Outcome(404, st)}
       ELSE IF log_date = NoDate THEN {Outcome(500, st)}
       ELSE IF LogsOn(st, user, log_date) = {} THEN {Outcome(404, st)}
       ELSE {Outcome(200,
               [st EXCEPT
                  !.users[user].total_pages = @ - log.pages + update_pages,
                  !.logs = (@ (-) SetToBag({log}))
                           (+) SetToBag({[log EXCEPT !.pages = update_pages]})])
             : log \in LogsOn(st, user, log_date)}

\* A mutant: a missing log is answered as a success.
delete_reading_log_no_404(st, date, telegram_id) ==
    LET user == UserByTelegram(st, telegram_id)
        log_date == strptime(date, "%Y-%m-%d")
    IN IF user = 0 THEN {Outcome(404, st)}
       ELSE IF log_date = NoDate THEN {Outcome(500, st)}
       ELSE IF LogsOn(st, user, log_date) = {} THEN {Outcome(200, st)}
       ELSE {Outcome(200,
               [st EXCEPT !.users[user].total_pages = @ - log.pages,
                          !.logs = @ (-) SetToBag({log})])
             : log \in LogsOn(st, user, log_date)}

delete_reading_log(st, date, telegram_id) ==
    LET user == UserByTelegram(st, telegram_id)
        log_date == strptime(date, "%Y-%m-%d")
    IN IF user = 0 THEN {Outcome(404, st)}
       ELSE IF log_date = NoDate THEN {Outcome(500, st)}
       ELSE IF LogsOn(st, user, log_date) = {} THEN {Outcome(404, st)}
       ELSE {Outcome(200,
               [st EXCEPT !.users[user].total_pages = @ - log.pages,
                          !.logs = @ (-) SetToBag({log})])
             : log \in LogsOn(st, user, log_date)}

get_user_by_telegram(st, telegram_id) ==
    IF UserByTelegram(st, telegram_id) = 0
    THEN {Outcome(404, st)} ELSE {Outcome(200, st)}

create_announcement(st, message) ==
    {Outcome(200, [st EXCEPT !.announcements =
                       Append(@, [message |-> message, sent_at |-> NULL])])}

mark_announcement_sent(st, announcement_id, now) ==
    IF announcement_id \notin 1..Len(st.announcements)
    THEN {Outcome(404, st)}
    ELSE {Outcome(200, [st EXCEPT !.announcements[announcement_id].sent_at = now])}

-----------------------------------------------------------------------------
(* Requests.  One action per route: the handler runs from its first query  *)
(* to its commit, and the request is recorded with the status it got.      *)

NoText == Tok("", <<>>)

\* The records of the last operation when there was none of the kind.
NoCmd == [name |-> "", user |-> 0, args |-> <<>>]
NoBoard == [period |-> "", limit |-> 0, rows |-> <<>>, resp |-> <<>>]
NoProbe == [fn |-> "", dt |-> 0, start |-> 0, end |-> 0]
NoReport == [asked |-> FALSE, rows |-> <<>>, resp |-> <<>>]
NoDue == [asked |-> FALSE, at |-> 0, users |-> <<>>]
NoDiary == [ticks |-> 0, watch |-> EmptyBag, got |-> EmptyBag, clean |-> TRUE]
NoFanout == [a \in {} |-> <<>>]
Idle == [pc |-> "idle", anns |-> <<>>, i |-> 0, users |-> <<>>, j |-> 0,
         sent_before |-> {}, fanout |-> NoFanout]
NoDash == [op |-> "", resp |-> <<>>]
NoParked == [job |-> Idle, outbox |-> <<>>]

\* Before any job ran and any report was asked, at 00:00.
Quiet ==
    /\ minute = 0
    /\ report = NoReport
    /\ due = NoDue
    /\ diary = NoDiary
    /\ job = Idle
    /\ outbox = <<>>
    /\ dash = NoDash
    /\ delivered = EmptyBag
    /\ parked = NoParked
    /\ inflight = {}

Call(op, key, date, pages, status) ==
    [op |-> op, key |-> key, date |-> date, pages |-> pages, status |-> status]

\* The store becomes the outcome's.
Commit(out) ==
    /\ users' = out.st.users
    /\ logs' = out.st.logs
    /\ announcements' = out.st.announcements

Request(op, key, date, pages, outs) ==
    \E out \in outs :
        /\ Commit(out)
        /\ api_calls' = <<Call(op, key, date, pages, out.status)>>
        /\ board' = NoBoard
        /\ UNCHANGED <<today, cmd, reply, keyboards, probe, rest>>

\* Bounds of the model.
MaxLogs == 2
MaxAnnouncements == 1

BaseDay == Ymd2Ord(2026, 1, 7)
TelegramIds == {101, 102}
FirstNameOf(telegram_id) ==
    IF telegram_id = 101 THEN "A" ELSE IF telegram_id = 102 THEN "B" ELSE "C"
ApiPages == {-1, 500}
ApiDates == {strftime(BaseDay - 1, "%Y-%m-%d"), strftime(BaseDay, "%Y-%m-%d"),
             Tok("?", <<>>)}

POST_users(telegram_id) ==
    Request("create_user", telegram_id, NoText, 0,
            create_user(Store, telegram_id, FirstNameOf(telegram_id)))

POST_reading_logs(date, pages, telegram_id) ==
    /\ BagCardinality(logs) < MaxLogs
    /\ Request("create_reading_log", telegram_id, date, pages,
               create_reading_log(Store, date, pages, telegram_id))

PUT_reading_logs(date, pages, telegram_id) ==
    Request("update_reading_log", telegram_id, date, pages,
            update_reading_log(Store, date, pages, telegram_id))

DELETE_reading_logs(date, telegram_id) ==
    Request("delete_reading_log", telegram_id, date, 0,
            delete_reading_log(Store, date, telegram_id))

POST_announcements ==
    /\ Len(announcements) < MaxAnnouncements
    /\ Request("create_announcement", 0, NoText, 0,
               create_announcement(Store, "m"))

\* datetime.now(timezone.utc), in minutes.
Now == today * 1440 + minute

PUT_mark_sent(announcement_id) ==
    Request("mark_announcement_sent", announcement_id, NoText, 0,
            mark_announcement_sent(Store, announcement_id, Now))

Init ==
    /\ users = <<>>
    /\ logs = EmptyBag
    /\ announcements = <<>>
    /\ today = BaseDay
    /\ api_calls = <<>>
    /\ cmd = NoCmd
    /\ reply = ""
    /\ keyboards = {}
    /\ board = NoBoard
    /\ probe = NoProbe
    /\ Quiet

Next ==
    \/ \E t \in TelegramIds : POST_users(t)
    \/ \E d \in ApiDates, p \in ApiPages, t \in TelegramIds :
           POST_reading_logs(d, p, t)
    \/ \E d \in ApiDates, p \in ApiPages, t \in TelegramIds :
           PUT_reading_logs(d, p, t)
    \/ \E d \in ApiDates, t \in TelegramIds : DELETE_reading_logs(d, t)
    \/ POST_announcements
    \/ \E a \in 1..(MaxAnnouncements + 1) : PUT_mark_sent(a)

Spec == Init /\ [][Next]_vars

-----------------------------------------------------------------------------
(* The leaderboard.                                                        *)

\* The sum of the pages of the rows of bag B that are in set S.
RECURSIVE SumPages(_, _)
SumPages(S, B) ==
    IF S = {} THEN 0
    ELSE LET l == CHOOSE x \in S : TRUE
         IN l.pages * CopiesIn(l, B) + SumPages(S \ {l}, B)

\* The sequences that list every element of S once.
Orderings(S) ==
    {s \in [1..Cardinality(S) -> S] :
        \A i, j \in 1..Cardinality(S) : i # j => s[i] # s[j]}

\* .limit(limit) on SQLite: the first limit rows, every row when limit < 0.
SqlLimit(rows, limit) ==
    IF limit < 0 \/ limit >= Len(rows) THEN rows ELSE SubSeq(rows, 1, limit)

\* A mutant: the bot's word for the week selects the week as well.
date_filter_hafta(period, now) ==
    IF period = "week" \/ period = "hafta"
    THEN [on |-> TRUE, w |-> get_week_saturday_to_friday(now)]
    ELSE IF period = "month"
    THEN [on |-> TRUE, w |-> get_month_range(now)]
    ELSE [on |-> FALSE, w |-> [start |-> 0, end |-> 0]]

\* The date filter of a period: [start, end], or none.
date_filter(period, now) ==
    IF period = "week"
    THEN [on |-> TRUE, w |-> get_week_saturday_to_friday(now)]
    ELSE IF period = "month"
    THEN [on |-> TRUE, w |-> get_month_range(now)]
    ELSE [on |-> FALSE, w |-> [start |-> 0, end |-> 0]]

\* A mutant: the window's last day is left out.
Joined_end_excluded(st, f) ==
    {l \in BagToSet(st.logs) :
        /\ l.user_id \in 1..Len(st.users)
        /\ f.on => (l.date >= f.w.start /\ l.date < f.w.end)}

\* The rows of users JOIN reading_logs that pass the filter.
Joined(st, f) ==
    {l \in BagToSet(st.logs) :
        /\ l.user_id \in 1..Len(st.users)
        /\ f.on => (l.date >= f.w.start /\ l.date <= f.w.end)}

\* func.sum(ReadingLog.pages) of one group.
GroupSum(st, f, user_id) ==
    SumPages({l \in Joined(st, f) : l.user_id = user_id}, st.logs)

\* A mutant: the groups come in ascending order of their sums.
Ordered_ascending(st, f, groups) ==
    {s \in Orderings(groups) :
        \A i, j \in 1..Len(s) :
            i < j => GroupSum(st, f, s[i]) <= GroupSum(st, f, s[j])}

\* .order_by(func.sum(ReadingLog.pages).desc()): any order of the groups with
\* the sums not increasing; SQL leaves the order of equal sums open.
Ordered(st, f, groups) ==
    {s \in Orderings(groups) :
        \A i, j \in 1..Len(s) :
            i < j => GroupSum(st, f, s[i]) >= GroupSum(st, f, s[j])}

\* The responses leaderboard can give: rows are the ids of the users of the
\* result rows, resp the list it returns.
leaderboard(st, period, limit, now) ==
    LET f == date_filter(period, now)
        groups == {l.user_id : l \in Joined(st, f)}
    IN {[rows |-> SqlLimit(s, limit),
         resp |-> [idx \in 1..Len(SqlLimit(s, limit)) |->
                     [rank |-> idx,
                      name |-> st.users[s[idx]].first_name,
                      pages |-> GroupSum(st, f, s[idx]),
                      books |-> st.users[s[idx]].books_completed]]]
        : s \in Ordered(st, f, groups)}

GET_leaderboard(period, limit) ==
    /\ \E out \in leaderboard(Store, period, limit, today) :
           board' = [period |-> period, limit |-> limit,
                     rows |-> out.rows, resp |-> out.resp]
    /\ api_calls' = <<Call("leaderboard", limit, NoText, 0, 200)>>
    /\ UNCHANGED <<users, logs, announcements, today, cmd, reply, keyboards,
                   probe, rest>>

-----------------------------------------------------------------------------
(* The Telegram handlers of src/bot.py.  A handler runs from the update to *)
(* its reply; api_calls lists the requests it made.  api_request returns   *)
(* the response's JSON whatever the status, and the handlers below use it  *)
(* only where the source does.                                             *)

MaxPages == 500
MaxKeyboards == 1

\* The handler answers without any request.
Answer(text) ==
    /\ reply' = text
    /\ api_calls' = <<>>
    /\ UNCHANGED <<users, logs, announcements, keyboards>>

Handled(name, telegram_id, args) ==
    /\ cmd' = [name |-> name, user |-> telegram_id, args |-> args]
    /\ board' = NoBoard
    /\ UNCHANGED <<today, probe, rest>>

start_command(telegram_id) ==
    /\ Handled("start", telegram_id, <<>>)
    /\ \E out \in create_user(Store, telegram_id, FirstNameOf(telegram_id)) :
           /\ Commit(out)
           /\ api_calls' = <<Call("create_user", telegram_id, NoText, 0, out.status)>>
    /\ reply' = "welcome"
    /\ UNCHANGED keyboards

\* A mutant: the upper end of the range is not checked.
add_range_error_no_upper(pages) == pages <= 0

\* add_command's range check: pages <= 0 or pages > 500.
add_range_error(pages) == pages <= 0 \/ pages > MaxPages

\* add_command's date check: date.date() > datetime.now().date().
add_future_error(date, now) == date > now

add_command(telegram_id, args) ==
    /\ Handled("add", telegram_id, args)
    /\ IF args = <<>> THEN Answer("add_format")
       ELSE IF Len(args) > 2 THEN Answer("add_format_short")
       ELSE LET date == IF Len(args) = 1 THEN today ELSE parse_date(args[1])
                text == args[Len(args)]
            IN IF date = NoDate \/ ~IsIntText(text)
               THEN Answer("add_not_integer")
               ELSE IF add_range_error(IntOf(text)) THEN Answer("add_range")
               ELSE IF add_future_error(date, today) THEN Answer("add_future")
               ELSE /\ BagCardinality(logs) < MaxLogs
                    /\ \E out \in create_reading_log(
                              Store, strftime(date, "%Y-%m-%d"), IntOf(text),
                              telegram_id) :
                         \E got \in get_user_by_telegram(out.st, telegram_id) :
                           /\ Commit(out)
                           /\ api_calls' =
                                <<Call("create_reading_log", telegram_id,
                                       strftime(date, "%Y-%m-%d"), IntOf(text),
                                       out.status),
                                  Call("get_user_by_telegram", telegram_id,
                                       NoText, 0, got.status)>>
                           /\ reply' = IF got.status = 404
                                       THEN "add_user_not_found" ELSE "add_ok"
                    /\ UNCHANGED keyboards

edit_command(telegram_id, args) ==
    /\ Handled("edit", telegram_id, args)
    /\ IF Len(args) # 2 THEN Answer("edit_format")
       ELSE LET date == parse_date(args[1]) IN
            IF date = NoDate \/ ~IsIntText(args[2]) THEN Answer("edit_bad")
            ELSE /\ \E out \in update_reading_log(
                           Store, strftime(date, "%Y-%m-%d"), IntOf(args[2]),
                           telegram_id) :
                      /\ Commit(out)
                      /\ api_calls' =
                           <<Call("update_reading_log", telegram_id,
                                  strftime(date, "%Y-%m-%d"), IntOf(args[2]),
                                  out.status)>>
                 /\ reply' = "edit_ok"
                 /\ UNCHANGED keyboards

\* The prompt's confirm button carries "delete_confirm_" and the date.
\* A mutant: a valid date is deleted at once, with no prompt.
delete_command_at_once(telegram_id, args) ==
    /\ Handled("delete", telegram_id, args)
    /\ UNCHANGED keyboards
    /\ IF Len(args) # 1 \/ parse_date(args[1]) = NoDate
       THEN /\ reply' = "delete_format"
            /\ api_calls' = <<>>
            /\ UNCHANGED <<users, logs, announcements>>
       ELSE LET date_str == strftime(parse_date(args[1]), "%Y-%m-%d") IN
            /\ \E out \in delete_reading_log(Store, date_str, telegram_id) :
                   /\ Commit(out)
                   /\ api_calls' = <<Call("delete_reading_log", telegram_id,
                                          date_str, 0, out.status)>>
            /\ reply' = "deleted"

delete_command(telegram_id, args) ==
    /\ Handled("delete", telegram_id, args)
    /\ IF Len(args) # 1
       THEN Answer("delete_format")
       ELSE LET date == parse_date(args[1]) IN
            IF date = NoDate THEN Answer("delete_bad_date")
            ELSE /\ Cardinality(keyboards) < MaxKeyboards
                 /\ keyboards' = keyboards \cup {strftime(date, "%Y-%m-%d")}
                 /\ reply' = "delete_confirm_prompt"
                 /\ api_calls' = <<>>
                 /\ UNCHANGED <<users, logs, announcements>>

\* A button of a prompt is pressed: data is "confirm" or "cancel", date_str the
\* date the prompt's confirm button carries.  edit_message_text replaces the
\* prompt, so its buttons are gone.
button_callback(telegram_id, data, date_str) ==
    /\ date_str \in keyboards
    /\ keyboards' = keyboards \ {date_str}
    /\ Handled("button_" \o data, telegram_id, <<date_str>>)
    /\ IF data = "confirm"
       THEN /\ \E out \in delete_reading_log(Store, date_str, telegram_id) :
                 /\ Commit(out)
                 /\ api_calls' = <<Call("delete_reading_log", telegram_id,
                                        date_str, 0, out.status)>>
            /\ reply' = "deleted"
       ELSE /\ reply' = "cancelled"
            /\ api_calls' = <<>>
            /\ UNCHANGED <<users, logs, announcements>>

\* The Telegram user who writes to the bot.
BotUsers == {101}

\* The texts a user can send as arguments.
Yesterday == strftime(BaseDay - 1, "%d.%m.%Y")
Today == strftime(BaseDay, "%Y-%m-%d")
Tomorrow == strftime(BaseDay + 1, "%d/%m/%Y")
NoSuchDay == Tok(".", <<31, 2, 2026>>)
WrongOrder == Tok("-", <<7, 1, 2026>>)
Word == Tok("?", <<>>)
Num(n) == Tok("", <<n>>)

AddArgs ==
    {<<>>, <<Num(1)>>, <<Num(500)>>, <<Num(0)>>, <<Num(501)>>, <<Word>>,
     <<Yesterday, Num(1)>>, <<Today, Num(500)>>, <<Tomorrow, Num(1)>>,
     <<NoSuchDay, Num(1)>>, <<WrongOrder, Num(1)>>, <<Yesterday, Word>>,
     <<Yesterday, Num(0)>>, <<Yesterday, Num(501)>>, <<Num(1), Yesterday>>,
     <<Yesterday, Num(1), Num(1)>>}

EditArgs ==
    {<<>>, <<Yesterday>>, <<Yesterday, Num(1)>>, <<Today, Num(500)>>,
     <<Yesterday, Num(501)>>, <<Today, Num(0)>>, <<Tomorrow, Num(1)>>,
     <<NoSuchDay, Num(1)>>, <<Yesterday, Word>>, <<Yesterday, Num(1), Num(1)>>}

DeleteArgs ==
    {<<>>, <<Yesterday>>, <<Today>>, <<Tomorrow>>, <<NoSuchDay>>,
     <<Yesterday, Today>>}

\* A day passes on the wall clock.  The records of the last operation are of
\* the day before.
MaxDays == 1
Tick ==
    /\ today < BaseDay + MaxDays
    /\ today' = today + 1
    /\ cmd' = NoCmd
    /\ reply' = ""
    /\ api_calls' = <<>>
    /\ board' = NoBoard
    /\ UNCHANGED <<users, logs, announcements, keyboards, probe, rest>>

NextBot ==
    \/ Tick
    \/ \E t \in BotUsers : start_command(t)
    \/ \E t \in BotUsers, a \in AddArgs : add_command(t, a)
    \/ \E t \in BotUsers, a \in EditArgs : edit_command(t, a)
    \/ \E t \in BotUsers, a \in DeleteArgs : delete_command(t, a)
    \/ \E t \in BotUsers, b \in {"confirm", "cancel"}, k \in keyboards :
           button_callback(t, b, k)

SpecBot == Init /\ [][NextBot]_vars

-----------------------------------------------------------------------------
(* What the claims speak of.                                               *)

LogsOfUser(user_id) == {l \in BagToSet(logs) : l.user_id = user_id}

Registered(telegram_id) ==
    \E i \in 1..Len(users) : users[i].telegram_id = telegram_id

\* The user with this telegram id has a log on this date.
HasLogOn(telegram_id, log_date) ==
    \E l \in BagToSet(logs) :
        users[l.user_id].telegram_id = telegram_id /\ l.date = log_date

\* The number of log rows of one user on one date.
RowsOn(user_id, log_date) ==
    BagCardinality([l \in {x \in BagToSet(logs) :
                              x.user_id = user_id /\ x.date = log_date}
                    |-> CopiesIn(l, logs)])

LastCall == api_calls[Len(api_calls)]

\* C1: after any sequence of create, update and delete requests, run one at a
\* time, every user's total_pages is the sum of the pages of that user's
\* remaining reading logs.
TotalPagesIsSumOfLogs ==
    \A i \in 1..Len(users) :
        users[i].total_pages = SumPages(LogsOfUser(i), logs)

\* C1's case: a delete has just succeeded and the user still has a log with a
\* total that is not zero.
TotalPagesAfterDelete ==
    /\ api_calls # <<>>
    /\ LastCall.op = "delete_reading_log" /\ LastCall.status = 200
    /\ \E i \in 1..Len(users) :
           LogsOfUser(i) # {} /\ users[i].total_pages = 500

\* C2: no user has two reading logs on one calendar date.
OneLogPerUserAndDate ==
    \A i \in 1..Len(users) :
        \A l \in LogsOfUser(i) : RowsOn(i, l.date) <= 1

LogOps == {"create_reading_log", "update_reading_log", "delete_reading_log"}

\* C5: a log request for an unknown telegram id, an update or delete for a
\* date the user has no log on, and mark-sent for an unknown announcement id
\* each answer 404 and leave users, logs and announcements as they were.
NotFoundLeavesStore ==
    [][api_calls' # <<>> =>
        LET c == api_calls'[1]
            missing ==
                \/ /\ c.op \in LogOps
                   /\ strptime(c.date, "%Y-%m-%d") # NoDate
                   /\ ~Registered(c.key)
                \/ /\ c.op \in {"update_reading_log", "delete_reading_log"}
                   /\ strptime(c.date, "%Y-%m-%d") # NoDate
                   /\ ~HasLogOn(c.key, strptime(c.date, "%Y-%m-%d"))
                \/ /\ c.op = "mark_announcement_sent"
                   /\ c.key \notin 1..Len(announcements)
        IN missing => (c.status = 404 /\ UNCHANGED store)]_vars

\* C5's case: a registered user with a log was answered 404 for a delete on
\* another date.
NotFoundAnswered ==
    /\ api_calls # <<>>
    /\ LastCall.op = "delete_reading_log" /\ LastCall.status = 404
    /\ Registered(LastCall.key)
    /\ \E l \in BagToSet(logs) : users[l.user_id].telegram_id = LastCall.key

-----------------------------------------------------------------------------
(* The command front-end.                                                  *)

\* C3: every page count the front-end's commands put in the store is in
\* 1..500.
FrontEndPagesInRange ==
    \A l \in BagToSet(logs) : l.pages >= 1 /\ l.pages <= 500

\* The arguments of /add that are invalid on day now: none, more than two, a
\* page count that is no integer or is outside 1..500, a date that does not
\* parse or is later than now.
InvalidAdd(args, now) ==
    \/ Len(args) = 0
    \/ Len(args) > 2
    \/ ~IsIntText(args[Len(args)])
    \/ IntOf(args[Len(args)]) < 1
    \/ IntOf(args[Len(args)]) > 500
    \/ Len(args) = 2 /\ \A fmt \in {"%d.%m.%Y", "%Y-%m-%d", "%d/%m/%Y"} :
                            strptime(args[1], fmt) = NoDate
    \/ Len(args) = 2 /\ \E fmt \in {"%d.%m.%Y", "%Y-%m-%d", "%d/%m/%Y"} :
                            strptime(args[1], fmt) > now

AddErrors ==
    {"add_format", "add_format_short", "add_not_integer", "add_range",
     "add_future"}

\* C4: an /add with invalid input is answered with one of the error messages
\* and makes no request: users, logs and announcements stay as they were.
InvalidAddChangesNothing ==
    [][(cmd'.name = "add" /\ InvalidAdd(cmd'.args, today)) =>
          /\ reply' \in AddErrors
          /\ api_calls' = <<>>
          /\ UNCHANGED <<users, logs, announcements>>]_vars

\* C4's case: a registered user with a log was refused an /add for a future
\* date, and another an /add of 501 pages.
InvalidAddRefused ==
    /\ cmd.name = "add"
    /\ reply \in {"add_future", "add_range"}
    /\ Len(users) > 0
    /\ logs # EmptyBag

\* C6: when the API answers 404 to the request of /edit or of a confirmed
\* delete, the bot does not reply with its success message.
NotFoundReachesTheUser ==
    (/\ cmd.name \in {"edit", "button_confirm"}
     /\ api_calls # <<>>
     /\ LastCall.status = 404)
    => reply \notin {"edit_ok", "deleted"}

-----------------------------------------------------------------------------
(* The date helpers on their own: a day dt is drawn, a helper is called    *)
(* with it and the call is recorded with its result.                       *)

\* The days the helpers are called with: ProbeYears years from 1 December
\* 2023, and the Februaries and year ends of a leap and a common century year.
ProbeYears == 3
ProbeDays ==
    (Ymd2Ord(2023, 12, 1)..(Ymd2Ord(2023, 12, 1) + 366 * ProbeYears))
    \cup (Ymd2Ord(2000, 2, 1)..Ymd2Ord(2000, 3, 1))
    \cup (Ymd2Ord(2100, 2, 1)..Ymd2Ord(2100, 3, 1))
    \cup (Ymd2Ord(2099, 12, 25)..Ymd2Ord(2100, 1, 7))

\* The helper is called with the day drawn.
call_week ==
    /\ probe.fn = ""
    /\ probe' = [fn |-> "week", dt |-> probe.dt,
                 start |-> get_week_saturday_to_friday(probe.dt).start,
                 end |-> get_week_saturday_to_friday(probe.dt).end]
    /\ UNCHANGED <<users, logs, announcements, today, api_calls, cmd, reply,
                   keyboards, board, rest>>

call_month ==
    /\ probe.fn = ""
    /\ probe' = [fn |-> "month", dt |-> probe.dt,
                 start |-> get_month_range(probe.dt).start,
                 end |-> get_month_range(probe.dt).end]
    /\ UNCHANGED <<users, logs, announcements, today, api_calls, cmd, reply,
                   keyboards, board, rest>>

InitDates ==
    /\ users = <<>>
    /\ logs = EmptyBag
    /\ announcements = <<>>
    /\ today = BaseDay
    /\ api_calls = <<>>
    /\ cmd = NoCmd
    /\ reply = ""
    /\ keyboards = {}
    /\ board = NoBoard
    /\ \E dt \in ProbeDays : probe = [NoProbe EXCEPT !.dt = dt]
    /\ Quiet

NextDates == call_week \/ call_month

SpecDates == InitDates /\ [][NextDates]_vars

\* C7: the week of dt starts on a Saturday not after dt and less than 7 days
\* before it, and ends 6 days later, a Friday not before dt; a Saturday starts
\* its own week; Wednesday 2026-01-07 gives 2026-01-03 to 2026-01-09.
WeekIsSaturdayToFriday ==
    probe.fn = "week" =>
        /\ weekday(probe.start) = 5
        /\ probe.start <= probe.dt /\ probe.dt <= probe.end
        /\ probe.dt - probe.start < 7
        /\ probe.end = probe.start + 6
        /\ weekday(probe.end) = 4
        /\ weekday(probe.dt) = 5 => probe.start = probe.dt
        /\ probe.dt = Ymd2Ord(2026, 1, 7) =>
               (probe.start = Ymd2Ord(2026, 1, 3)
                /\ probe.end = Ymd2Ord(2026, 1, 9))

\* C7's case: the week of a Friday, which began six days before it.
WeekOfAFriday ==
    /\ probe.fn = "week"
    /\ weekday(probe.dt) = 4
    /\ probe.start = probe.dt - 6
    /\ probe.end = probe.dt

\* C8: the month range of dt is the first and the last day of dt's own month
\* and year; 2026-02-15 ends on 2026-02-28 and 2024-02-15 on 2024-02-29.
MonthIsFirstToLast ==
    probe.fn = "month" =>
        LET c == Ord2Ymd(probe.dt)
        IN /\ Ord2Ymd(probe.start) = [y |-> c.y, m |-> c.m, d |-> 1]
           /\ Ord2Ymd(probe.end) =
                  [y |-> c.y, m |-> c.m, d |-> DaysInMonth(c.y, c.m)]
           /\ probe.dt = Ymd2Ord(2026, 2, 15) =>
                  probe.end = Ymd2Ord(2026, 2, 28)
           /\ probe.dt = Ymd2Ord(2024, 2, 15) =>
                  probe.end = Ymd2Ord(2024, 2, 29)
           /\ c.m = 12 => probe.end = Ymd2Ord(c.y, 12, 31)

\* C8's case: a day of December, whose month ends in the same year, and the
\* 29th of a leap February.
MonthOfDecember ==
    /\ probe.fn = "month"
    /\ \/ /\ probe.dt = Ymd2Ord(2025, 12, 31)
          /\ probe.end = probe.dt
          /\ probe.start = probe.dt - 30
       \/ /\ probe.dt = Ymd2Ord(2024, 2, 29)
          /\ probe.end = probe.dt

-----------------------------------------------------------------------------
(* Specifications of the leaderboard: the users have registered, logs are  *)
(* created, days pass, and the leaderboard is read.                        *)

Registrations(ids) ==
    [i \in 1..Len(ids) |-> NewUser(ids[i], FirstNameOf(ids[i]))]

InitWith(ids) ==
    /\ users = Registrations(ids)
    /\ logs = EmptyBag
    /\ announcements = <<>>
    /\ today = BaseDay
    /\ api_calls = <<>>
    /\ cmd = NoCmd
    /\ reply = ""
    /\ keyboards = {}
    /\ board = NoBoard
    /\ probe = NoProbe
    /\ Quiet

Iso(y, m, d) == Tok("-", <<y, m, d>>)

\* Ranking: three users, two page counts, a date in the week of BaseDay and
\* one before it.
RankPages == {120, 200}
RankDates == {Iso(2026, 1, 2), Iso(2026, 1, 5)}
RankLimits == {-1, 0, 2, 10}

NextRank ==
    \/ \E d \in RankDates, p \in RankPages, t \in {101, 102, 103} :
           /\ BagCardinality(logs) < MaxLogs + 1
           /\ Request("create_reading_log", t, d, p,
                      create_reading_log(Store, d, p, t))
    \/ \E period \in {"week", "month", "all"}, limit \in RankLimits :
           GET_leaderboard(period, limit)

SpecRank == InitWith(<<101, 102, 103>>) /\ [][NextRank]_vars

\* Windows: two users and the days at and around the ends of the week
\* (Saturday 3 to Friday 9 January 2026) and of the month of BaseDay.
WindowDates ==
    {Iso(2025, 12, 31), Iso(2026, 1, 1), Iso(2026, 1, 2), Iso(2026, 1, 3),
     Iso(2026, 1, 9), Iso(2026, 1, 10), Iso(2026, 1, 31), Iso(2026, 2, 1)}

NextWindow ==
    \/ \E d \in WindowDates, p \in RankPages, t \in TelegramIds :
           POST_reading_logs(d, p, t)
    \/ \E period \in {"week", "month", "all"}, limit \in {-1, 10} :
           GET_leaderboard(period, limit)

SpecWindow == InitWith(<<101, 102>>) /\ [][NextWindow]_vars

\* C9, as amended: the leaderboard returns at most limit entries when limit is
\* not negative; its ranks are 1, 2, .., N in list order and its pages never
\* increase along the list; with sums A 120, B 200 and C 200 the last of the
\* three entries is A.
RanksAreConsecutive ==
    board.period # "" =>
        /\ board.limit >= 0 => Len(board.resp) <= board.limit
        /\ \A i \in 1..Len(board.resp) : board.resp[i].rank = i
        /\ \A i, j \in 1..Len(board.resp) :
               i < j => board.resp[i].pages >= board.resp[j].pages
        /\ (/\ board.period = "all"
            /\ Len(board.resp) = 3
            /\ users[1].total_pages = 120
            /\ users[2].total_pages = 200
            /\ users[3].total_pages = 200)
           => board.resp[3].name = "A"

\* C9 as claimed: at most limit entries for every limit, and the rest as above.
AtMostLimitEntries ==
    board.period # "" =>
        /\ Len(board.resp) <= board.limit
        /\ \A i \in 1..Len(board.resp) : board.resp[i].rank = i
        /\ \A i, j \in 1..Len(board.resp) :
               i < j => board.resp[i].pages >= board.resp[j].pages

\* C9's case: sums A 120, B 200, C 200 were ranked with C first, B second and
\* A third.
TieRanked ==
    /\ board.period = "all" /\ Len(board.resp) = 3
    /\ users[1].total_pages = 120 /\ users[2].total_pages = 200
    /\ users[3].total_pages = 200
    /\ board.resp[1].name = "C" /\ board.resp[2].name = "B"
    /\ board.resp[2].rank = 2 /\ board.resp[1].pages = board.resp[2].pages

\* The window of a period on day now, both ends included.
InPeriod(d, period, now) ==
    \/ period = "all"
    \/ /\ period = "week"
       /\ d >= get_week_saturday_to_friday(now).start
       /\ d <= get_week_saturday_to_friday(now).end
    \/ /\ period = "month"
       /\ d >= get_month_range(now).start
       /\ d <= get_month_range(now).end

LogsInPeriod(user_id, period) ==
    {l \in LogsOfUser(user_id) : InPeriod(l.date, period, today)}

\* C10: every entry's pages are the sum of its user's logs dated in the
\* period's window, and without a cutting limit the users listed are exactly
\* those with a log in the window.
PagesAreWindowSums ==
    board.period \in {"week", "month", "all"} =>
        /\ Len(board.rows) = Len(board.resp)
        /\ \A i \in 1..Len(board.resp) :
               /\ board.resp[i].pages =
                      SumPages(LogsInPeriod(board.rows[i], board.period), logs)
               /\ board.resp[i].name = users[board.rows[i]].first_name
        /\ (board.limit < 0 \/ board.limit >= Len(users)) =>
               {board.rows[i] : i \in 1..Len(board.rows)} =
               {u \in 1..Len(users) : LogsInPeriod(u, board.period) # {}}

\* C10's case: the week's leaderboard lists a user whose two logs are dated on
\* the first and the last day of the week, and counts both.
WindowEndsCounted ==
    /\ board.period = "week"
    /\ \E i \in 1..Len(board.resp) :
           /\ board.resp[i].pages = 320
           /\ {l.date : l \in LogsOfUser(board.rows[i])} =
                  {Ymd2Ord(2026, 1, 3), Ymd2Ord(2026, 1, 9)}

-----------------------------------------------------------------------------
(* The weekly report.                                                      *)

\* A mutant: exactly 500 pages do not win.
is_winner_over(pages) == pages > 500

\* "winner": pages >= 500
is_winner(pages) == pages >= 500

\* The responses weekly_report can give: rows are the ids of the users of
\* the result rows, resp the list it returns.
weekly_report(st, now) ==
    LET f == [on |-> TRUE, w |-> get_week_saturday_to_friday(now)]
        groups == {l.user_id : l \in Joined(st, f)}
    IN {[rows |-> s,
         resp |-> [idx \in 1..Len(s) |->
                     [rank |-> idx,
                      name |-> st.users[s[idx]].first_name,
                      pages |-> GroupSum(st, f, s[idx]),
                      winner |-> is_winner(GroupSum(st, f, s[idx]))]]]
        : s \in Ordered(st, f, groups)}

GET_report_week ==
    /\ \E out \in weekly_report(Store, today) :
           report' = [asked |-> TRUE, rows |-> out.rows, resp |-> out.resp]
    /\ api_calls' = <<Call("weekly_report", 0, NoText, 0, 200)>>
    /\ board' = NoBoard
    /\ UNCHANGED <<users, logs, announcements, today, cmd, reply, keyboards,
                   probe, minute, due, diary, job, outbox>>
    /\ UNCHANGED later

\* Two users log 1, 499 or 500 pages on the days at and around the ends of
\* the week of BaseDay (Saturday 3 to Friday 9 January 2026), and the report
\* is read.
ReportPages == {1, 499, 500}
ReportDates ==
    {Iso(2026, 1, 2), Iso(2026, 1, 3), Iso(2026, 1, 9), Iso(2026, 1, 10)}

POST_reading_logs_then_report(date, pages, telegram_id) ==
    /\ BagCardinality(logs) < MaxLogs + 1
    /\ \E out \in create_reading_log(Store, date, pages, telegram_id) :
           /\ Commit(out)
           /\ api_calls' = <<Call("create_reading_log", telegram_id, date,
                                  pages, out.status)>>
    /\ board' = NoBoard
    /\ report' = NoReport
    /\ UNCHANGED <<today, cmd, reply, keyboards, probe, minute, due, diary,
                   job, outbox>>
    /\ UNCHANGED later

NextReport ==
    \/ \E d \in ReportDates, p \in ReportPages, t \in TelegramIds :
           POST_reading_logs_then_report(d, p, t)
    \/ GET_report_week

SpecReport == InitWith(<<101, 102>>) /\ [][NextReport]_vars

\* C11: a row of the weekly report is flagged winner exactly when the pages
\* of its user's logs dated in the Saturday-Friday week of today sum to 500
\* or more; the row's pages are that sum.
WinnerIffFiveHundredInWeek ==
    report.asked =>
        \A i \in 1..Len(report.resp) :
            LET sum == SumPages(LogsInPeriod(report.rows[i], "week"), logs)
            IN /\ report.resp[i].pages = sum
               /\ report.resp[i].winner <=> sum >= 500

\* C11's case: one user has exactly 500 pages in the week and is flagged,
\* the other has 499 in the week and a page outside it, 500 in all, and is
\* not.
WinnerAtFiveHundredOnly ==
    /\ report.asked
    /\ \E i, j \in 1..Len(report.resp) :
           /\ report.resp[i].pages = 500 /\ report.resp[i].winner
           /\ report.resp[j].pages = 499 /\ ~report.resp[j].winner
           /\ users[report.rows[j]].total_pages = 500

-----------------------------------------------------------------------------
(* Reminders.  reminder_time is a string; the clock's time of day is       *)
(* formatted with "%H:%M" and compared with it.                            *)

Digits == <<"0", "1", "2", "3", "4", "5", "6", "7", "8", "9">>
TwoDigits(n) == Digits[(n \div 10) + 1] \o Digits[(n % 10) + 1]

\* A mutant: the hour is written without its leading zero.
strftime_HM_unpadded(m) ==
    (IF m \div 60 < 10 THEN Digits[(m \div 60) + 1] ELSE TwoDigits(m \div 60))
        \o ":" \o TwoDigits(m % 60)

\* datetime.now().strftime("%H:%M") at m minutes after midnight.
strftime_HM(m) == TwoDigits(m \div 60) \o ":" \o TwoDigits(m % 60)

\* The strings ^([01]\d|2[0-3]):([0-5]\d)$ matches.
ClockTexts ==
    {TwoDigits(h) \o ":" \o TwoDigits(m) : h \in 0..23, m \in 0..59}

\* PUT /api/users/{telegram_id}/update with {"reminder_time": reminder_time}.
update_user_fields(st, telegram_id, reminder_time) ==
    LET id == UserByTelegram(st, telegram_id)
    IN IF id = 0 THEN {Outcome(404, st)}
       ELSE {Outcome(200, [st EXCEPT
                              !.users[id].reminder_time = reminder_time])}

\* A mutant: every user is returned by every check.
need_reminder_filter_all(user, now_hhmm) == TRUE

\* A mutant: the day's last check returns every user, as a catch-up.
need_reminder_filter_catch_up(user, now_hhmm) ==
    user.reminder_time = now_hhmm \/ now_hhmm = "23:59"

\* User.reminder_time == now_hhmm
need_reminder_filter(user, now_hhmm) == user.reminder_time = now_hhmm

\* The responses get_users_need_reminder can give at m minutes after
\* midnight: the matching users, in any order (the query has no ORDER BY).
get_users_need_reminder(st, m) ==
    LET now_hhmm == strftime_HM(m)
        ids == {i \in 1..Len(st.users) :
                   need_reminder_filter(st.users[i], now_hhmm)}
    IN {[k \in 1..Len(s) |->
            [telegram_id |-> st.users[s[k]].telegram_id,
             first_name |-> st.users[s[k]].first_name]]
        : s \in Orderings(ids)}

\* A mutant: the first send that raises ends the run.
reminder_sends_abort(due_users, failing) ==
    LET bad == {k \in 1..Len(due_users) : due_users[k].telegram_id \in failing}
        n == IF bad = {} THEN Len(due_users)
             ELSE CHOOSE k \in bad : \A b \in bad : k <= b
    IN [k \in 1..n |->
           [job |-> "send_reminders", ann |-> 0,
            chat |-> due_users[k].telegram_id,
            ok |-> due_users[k].telegram_id \notin failing]]

\* The sends of one run of send_reminders to the users returned, when the
\* sends to the chats in failing raise:
\* for u in users or []: try: send_message(...) except Exception: print(...)
reminder_sends(due_users, failing) ==
    [k \in 1..Len(due_users) |->
        [job |-> "send_reminders", ann |-> 0,
         chat |-> due_users[k].telegram_id,
         ok |-> due_users[k].telegram_id \notin failing]]

\* The chats of the sends of box that succeeded, as a bag.
Delivered(box) ==
    LET RECURSIVE upto(_)
        upto(k) == IF k = 0 THEN EmptyBag
                   ELSE IF box[k].ok
                        THEN upto(k - 1) (+) SetToBag({box[k].chat})
                        ELSE upto(k - 1)
    IN upto(Len(box))

\* The diary counts the day's checks made in these minutes, 08:00 and 20:00.
WatchedMinutes == {480, 1200}
MaxRuns == 2
MaxClock == 1500

\* One run of the job, from the request to the last send.  The request
\* fails (up = FALSE) or answers; the sends to the chats in failing raise.
send_reminders(up) ==
    /\ diary.ticks < MaxRuns
    /\ \E due_users \in get_users_need_reminder(Store, minute) :
       \E failing \in SUBSET {due_users[k].telegram_id :
                                  k \in 1..Len(due_users)} :
           LET box == IF up THEN reminder_sends(due_users, failing) ELSE <<>>
           IN /\ due' = IF up THEN [asked |-> TRUE, at |-> minute,
                                    users |-> due_users]
                        ELSE NoDue
              /\ outbox' = box
              /\ diary' = [ticks |-> diary.ticks + 1,
                           watch |-> IF up /\ minute \in WatchedMinutes
                                     THEN diary.watch (+) SetToBag({minute})
                                     ELSE diary.watch,
                           got |-> diary.got (+) Delivered(box),
                           clean |-> /\ diary.clean
                                     /\ \A k \in 1..Len(box) : box[k].ok]
    /\ api_calls' = <<Call("get_users_need_reminder", 0, NoText, 0,
                           IF up THEN 200 ELSE 0)>>
    /\ cmd' = NoCmd
    /\ reply' = ""
    /\ board' = NoBoard
    /\ UNCHANGED <<users, logs, announcements, today, keyboards, probe,
                   minute, report, job>>
    /\ UNCHANGED later

\* The clock reaches the next minute; at midnight a new day begins.
MinutePasses ==
    /\ (today - BaseDay) * 1440 + minute < MaxClock
    /\ minute' = (minute + 1) % 1440
    /\ today' = IF minute = 1439 THEN today + 1 ELSE today
    /\ diary' = IF minute = 1439 THEN NoDiary ELSE [diary EXCEPT !.ticks = 0]
    /\ due' = NoDue
    /\ outbox' = <<>>
    /\ api_calls' = <<>>
    /\ cmd' = NoCmd
    /\ reply' = ""
    /\ board' = NoBoard
    /\ UNCHANGED <<users, logs, announcements, keyboards, probe, report, job>>
    /\ UNCHANGED later

reminder_command(telegram_id, args) ==
    /\ cmd' = [name |-> "reminder", user |-> telegram_id, args |-> args]
    /\ board' = NoBoard
    /\ due' = NoDue
    /\ outbox' = <<>>
    /\ IF Len(args) # 1 \/ args[1] \notin ClockTexts
       THEN /\ reply' = "format"
            /\ api_calls' = <<>>
            /\ UNCHANGED <<users, logs, announcements>>
       ELSE /\ \E out \in update_user_fields(Store, telegram_id, args[1]) :
                  /\ Commit(out)
                  /\ api_calls' = <<Call("update_user_fields", telegram_id,
                                         NoText, 0, out.status)>>
            /\ reply' = "set"
    /\ UNCHANGED <<today, keyboards, probe, minute, report, diary, job>>
    /\ UNCHANGED later

\* The dashboard or any client sets a reminder time through the API.
PUT_users_update(telegram_id, reminder_time) ==
    /\ \E out \in update_user_fields(Store, telegram_id, reminder_time) :
           /\ Commit(out)
           /\ api_calls' = <<Call("update_user_fields", telegram_id, NoText,
                                  0, out.status)>>
    /\ cmd' = NoCmd
    /\ reply' = ""
    /\ board' = NoBoard
    /\ due' = NoDue
    /\ outbox' = <<>>
    /\ UNCHANGED <<today, keyboards, probe, minute, report, diary, job>>
    /\ UNCHANGED later

\* Users 101 and 102 have registered and choose their reminder times before
\* the day's first run; then the clock runs for MaxClock minutes and the job
\* runs up to MaxRuns times in a minute, or not at all.
ReminderArgs == {<<>>, <<"08:00">>, <<"8:00">>}

NextRemind ==
    \/ MinutePasses
    \/ \E up \in BOOLEAN : send_reminders(up)
    \/ \E a \in ReminderArgs :
           /\ today = BaseDay /\ minute = 0 /\ diary.ticks = 0
           /\ reminder_command(101, a)
    \/ \E r \in {"8:00"} :
           /\ today = BaseDay /\ minute = 0 /\ diary.ticks = 0
           /\ PUT_users_update(102, r)

SpecRemind == InitWith(<<101, 102>>) /\ [][NextRemind]_vars

\* The minute of the day a reminder time names, for the times the users of
\* SpecRemind hold; -1 for a string that names none.
ReminderMinute(text) ==
    CASE text = "08:00" -> 480
      [] text = "20:00" -> 1200
      [] OTHER -> -1

Returned == {due.users[k].telegram_id : k \in 1..Len(due.users)}
Reminded(telegram_id) == CopiesIn(telegram_id, diary.got)
ChecksIn(m) == CopiesIn(m, diary.watch)

\* C12: a need-reminder check returns, once each, exactly the users whose
\* reminder_time is the clock's time of day written HH:MM; a user with 08:00
\* is returned by a check exactly when it is made in minute 08:00 (480), one
\* with 20:00 exactly in minute 20:00 (1200), one with "8:00" by none.
NeedReminderIsItsMinute ==
    due.asked =>
        /\ due.at = minute
        /\ Cardinality(Returned) = Len(due.users)
        /\ \A i \in 1..Len(users) :
               /\ users[i].telegram_id \in Returned
                      <=> users[i].reminder_time = strftime_HM(due.at)
               /\ users[i].telegram_id \in Returned
                      <=> ReminderMinute(users[i].reminder_time) = due.at

\* C12's case: a check made at 08:00 returned the user whose reminder_time
\* is 08:00 and not the one whose reminder_time is 20:00.
ReturnedAtEight ==
    /\ due.asked /\ due.at = 480
    /\ \E i, j \in 1..Len(users) :
           /\ users[i].reminder_time = "08:00"
           /\ users[i].telegram_id \in Returned
           /\ users[j].reminder_time = "20:00"
           /\ users[j].telegram_id \notin Returned

\* C13: on a day on which no reminder send has failed, a user whose
\* reminder_time names a minute has received as many reminders as checks
\* were made in that minute: one when the job ran once in it, two when it
\* ran twice.
RemindersAreChecksInMinute ==
    diary.clean =>
        \A i \in 1..Len(users) :
            ReminderMinute(users[i].reminder_time) \in WatchedMinutes =>
                Reminded(users[i].telegram_id) =
                    ChecksIn(ReminderMinute(users[i].reminder_time))

\* C13's case: at the end of a day on which one check was made at 08:00 and
\* one at 20:00 and no send failed, the user of 08:00 and the user of 20:00
\* have one reminder each.
OneReminderThatDay ==
    /\ minute = 1439 /\ diary.clean
    /\ ChecksIn(480) = 1 /\ ChecksIn(1200) = 1
    /\ \E i, j \in 1..Len(users) :
           /\ users[i].reminder_time = "08:00"
           /\ Reminded(users[i].telegram_id) = 1
           /\ users[j].reminder_time = "20:00"
           /\ Reminded(users[j].telegram_id) = 1

\* C14: a user in whose reminder minute no check was made today has no
\* reminder today, whatever ran later.
MissedMinuteIsSkipped ==
    \A i \in 1..Len(users) :
        LET m == ReminderMinute(users[i].reminder_time)
        IN (m \in WatchedMinutes /\ ChecksIn(m) = 0) =>
               Reminded(users[i].telegram_id) = 0

\* C14's case: the job did not run at 08:00, it has just run at 08:01, and
\* the user of 08:00 has no reminder.
NoCatchUpAfterEight ==
    /\ minute = 481 /\ due.asked /\ ChecksIn(480) = 0
    /\ \E i \in 1..Len(users) :
           /\ users[i].reminder_time = "08:00"
           /\ Reminded(users[i].telegram_id) = 0

\* C15: a run of send_reminders whose request was answered attempts one send
\* to every user returned, in the order returned, whichever sends fail.
EveryDueUserIsTried ==
    due.asked =>
        /\ Len(outbox) = Len(due.users)
        /\ \A k \in 1..Len(outbox) :
               /\ outbox[k].job = "send_reminders"
               /\ outbox[k].chat = due.users[k].telegram_id

\* C15's case: the first send of a run failed and the second was made.
SendAfterFailedSend ==
    /\ due.asked /\ Len(outbox) = 2
    /\ ~outbox[1].ok
    /\ outbox[2].chat # outbox[1].chat

-----------------------------------------------------------------------------
(* Announcements and send_announcements.  A run goes from one awaited      *)
(* send_message to the next: a step is one send with its outcome and the   *)
(* code up to the next send.  Runs do not overlap here.                    *)

\* A mutant: the announcements are listed in the order of their creation.
list_announcements_oldest_first(st) ==
    LET n == Len(st.announcements)
        rows == [k \in 1..n |->
                    [id |-> k,
                     message |-> st.announcements[k].message,
                     sent_at |-> st.announcements[k].sent_at]]
    IN SqlLimit(rows, 20)

\* GET /api/announcements: the newest first (ids grow with created_at), at
\* most twenty.
list_announcements(st) ==
    LET n == Len(st.announcements)
        rows == [k \in 1..n |->
                    [id |-> n + 1 - k,
                     message |-> st.announcements[n + 1 - k].message,
                     sent_at |-> st.announcements[n + 1 - k].sent_at]]
    IN SqlLimit(rows, 20)

\* GET /api/users with no search and no status: the highest ids first, at
\* most limit.
list_users(st, limit) ==
    LET n == Len(st.users)
        rows == [k \in 1..n |->
                    [id |-> n + 1 - k,
                     telegram_id |-> st.users[n + 1 - k].telegram_id,
                     status |-> st.users[n + 1 - k].status]]
    IN SqlLimit(rows, limit)

\* The group's chat id (-1002184957543 in the source): no user's.
group_id == -1

\* A mutant: every announcement listed is taken for unsent.
is_unsent_always(ann) == TRUE

\* A mutant: an announcement that has reached the group is not taken again.
is_unsent_and_new(ann) ==
    /\ ann.sent_at = NULL
    /\ CopiesIn([ann |-> ann.id, chat |-> group_id], delivered) = 0

\* A mutant: a failed send is logged and the run goes on.
leaves_the_loop_never(to, ok) == FALSE

\* if ann.get("sent_at") is None
is_unsent(ann) == ann.sent_at = NULL

\* A mutant: the exception of any failed send ends the run.
leaves_the_loop_always(to, ok) == ~ok

\* The exception of a failed send leaves the for loops and ends the run:
\* that of the group send does, that of a user's send is caught and printed.
leaves_the_loop(to, ok) == ~ok /\ to = "group"

\* A mutant: the store is asked again whether the announcement is unsent.
NextUnsent_in_store(anns, k) ==
    LET rest_unsent == {m \in k..Len(anns) :
                           announcements[anns[m].id].sent_at = NULL}
    IN IF rest_unsent = {} THEN 0
       ELSE CHOOSE m \in rest_unsent : \A o \in rest_unsent : m <= o

\* The first unsent announcement of anns at or after position k, 0 if none.
NextUnsent(anns, k) ==
    LET rest_unsent == {m \in k..Len(anns) : is_unsent(anns[m])}
    IN IF rest_unsent = {} THEN 0
       ELSE CHOOSE m \in rest_unsent : \A o \in rest_unsent : m <= o

Send(ann, to, chat, ok) ==
    [job |-> "send_announcements", ann |-> ann, to |-> to, chat |-> chat,
     ok |-> ok]

\* The run is over; what it began with and fetched stays on record.
Ended == [Idle EXCEPT !.sent_before = job.sent_before,
                      !.fanout = job.fanout]

\* The steps of a run leave these alone.
JobStep(calls) ==
    /\ api_calls' = calls
    /\ cmd' = NoCmd
    /\ reply' = ""
    /\ board' = NoBoard
    /\ UNCHANGED <<users, logs, today, keyboards, probe, minute, report, due,
                   diary, dash, parked, inflight>>

\* The scheduler starts a run: the announcements are fetched, and the run
\* is over when none of them is unsent.
send_announcements ==
    /\ job.pc = "idle"
    /\ LET anns == list_announcements(Store)
           k == NextUnsent(anns, 1)
           before == {a \in 1..Len(announcements) :
                         announcements[a].sent_at # NULL}
       IN job' = IF k = 0
                 THEN [Idle EXCEPT !.sent_before = before]
                 ELSE [Idle EXCEPT !.pc = "group", !.anns = anns, !.i = k,
                                   !.sent_before = before]
    /\ outbox' = <<>>
    /\ UNCHANGED <<announcements, delivered>>
    /\ JobStep(<<Call("list_announcements", 0, NoText, 0, 200)>>)

\* The job after the last send for announcement job.anns[job.i]: mark-sent
\* has been requested, and the next unsent announcement of the list is taken.
NextAnnouncement(fanout) ==
    LET k == NextUnsent(job.anns, job.i + 1)
    IN IF k = 0
       THEN [Idle EXCEPT !.sent_before = job.sent_before, !.fanout = fanout]
       ELSE [job EXCEPT !.pc = "group", !.i = k, !.users = <<>>, !.j = 0,
                        !.fanout = fanout]

\* requests.put(f"{API_URL}/announcements/{ann['id']}/mark-sent")
MarkSent(a) ==
    \E out \in mark_announcement_sent(Store, a, Now) :
        announcements' = out.st.announcements

\* What becomes of the mark-sent request: it is served; it is answered with
\* an error status and nothing is stored, which requests.put returns like
\* any response; or the API cannot be reached and requests.put raises.
MarkResults == {"served", "error", "raises"}

\* The status recorded for the request, 0 when there was no response.
MarkStatus(mark) ==
    IF mark = "served" THEN 200 ELSE IF mark = "error" THEN 500 ELSE 0

\* The job after the mark-sent request for announcement a: an exception
\* leaves the run through the outer handler.
AfterMark(a, mark, fanout) ==
    /\ IF mark = "served" THEN MarkSent(a) ELSE UNCHANGED announcements
    /\ job' = IF mark = "raises"
              THEN [Idle EXCEPT !.sent_before = job.sent_before,
                                !.fanout = fanout]
              ELSE NextAnnouncement(fanout)

\* The sends that the step made and that returned have arrived at their
\* chats.
Tally ==
    LET made == SubSeq(outbox', Len(outbox) + 1, Len(outbox'))
        Returned_(s) == s.ok
        arrived == SelectSeq(made, Returned_)
    IN delivered' =
           IF arrived = <<>> THEN delivered
           ELSE delivered (+) SetToBag({[ann |-> arrived[1].ann,
                                         chat |-> arrived[1].chat]})

\* The send to the group returns or raises.  When it returns the users are
\* fetched, and with no user to send to mark-sent is requested.
group_send_then(ok, mark) ==
    /\ job.pc = "group"
    /\ LET a == job.anns[job.i].id
           fetched == list_users(Store, 100)
           fanout == [x \in DOMAIN job.fanout \cup {a} |->
                         IF x = a
                         THEN [users |-> fetched, known |-> Len(users)]
                         ELSE job.fanout[x]]
       IN /\ outbox' = Append(outbox, Send(a, "group", group_id, ok))
          /\ IF leaves_the_loop("group", ok)
             THEN /\ job' = Ended
                  /\ UNCHANGED announcements
                  /\ JobStep(<<>>)
             ELSE IF Len(fetched) = 0
             THEN /\ AfterMark(a, mark, fanout)
                  /\ JobStep(<<Call("list_users", 0, NoText, 0, 200),
                               Call("mark_announcement_sent", a, NoText, 0,
                                    MarkStatus(mark))>>)
             ELSE /\ job' = [job EXCEPT !.pc = "user", !.users = fetched,
                                        !.j = 1, !.fanout = fanout]
                  /\ UNCHANGED announcements
                  /\ JobStep(<<Call("list_users", 0, NoText, 0, 200)>>)

\* The send to user job.users[job.j] returns or raises; after the last user
\* mark-sent is requested.
user_send_then(ok, mark) ==
    /\ job.pc = "user"
    /\ LET a == job.anns[job.i].id
           chat == job.users[job.j].telegram_id
       IN /\ outbox' = Append(outbox, Send(a, "user", chat, ok))
          /\ IF leaves_the_loop("user", ok)
             THEN /\ job' = Ended
                  /\ UNCHANGED announcements
                  /\ JobStep(<<>>)
             ELSE IF job.j < Len(job.users)
             THEN /\ job' = [job EXCEPT !.j = job.j + 1]
                  /\ UNCHANGED announcements
                  /\ JobStep(<<>>)
             ELSE /\ AfterMark(a, mark, job.fanout)
                  /\ JobStep(<<Call("mark_announcement_sent", a, NoText, 0,
                                    MarkStatus(mark))>>)

\* The steps of a run whose mark-sent requests are served, with no count of
\* the arrivals.
group_send(ok) == group_send_then(ok, "served") /\ UNCHANGED delivered

user_send(ok) == user_send_then(ok, "served") /\ UNCHANGED delivered

\* The dashboard creates announcements, users register, any client marks an
\* announcement sent, days pass, and the job runs; sends fail or succeed.
NextDispatch ==
    \/ \E t \in TelegramIds : POST_users(t)
    \/ /\ Len(announcements) < MaxAnnouncements + 1
       /\ Request("create_announcement", 0, NoText, 0,
                  create_announcement(Store, "m"))
    \/ \E a \in 1..(MaxAnnouncements + 1) : PUT_mark_sent(a)
    \/ Tick
    \/ send_announcements
    \/ \E ok \in BOOLEAN : group_send(ok)
    \/ \E ok \in BOOLEAN : user_send(ok)

SpecDispatch == Init /\ [][NextDispatch]_vars

\* C16: an announcement is created with no sent time; a null sent time
\* becomes non-null only by a mark-sent of its id; a non-null sent time is
\* never changed by any step and never becomes null again.
SentAtIsSetOnce ==
    [][/\ Len(announcements') >= Len(announcements)
       /\ \A a \in 1..Len(announcements') :
              IF a > Len(announcements)
              THEN announcements'[a].sent_at = NULL
              ELSE IF announcements[a].sent_at # NULL
              THEN announcements'[a].sent_at = announcements[a].sent_at
              ELSE announcements'[a].sent_at # NULL =>
                       \E k \in 1..Len(api_calls') :
                           /\ api_calls'[k].op = "mark_announcement_sent"
                           /\ api_calls'[k].key = a
                           /\ api_calls'[k].status = 200]_vars

\* The sends of the running or last run to the users, for announcement a.
UserSendsOf(a) ==
    LET ToUserOf(s) ==
            s.job = "send_announcements" /\ s.ann = a /\ s.to = "user"
    IN SelectSeq(outbox, ToUserOf)

\* The run is at the users of announcement a.
FanningOut(a) == job.pc = "user" /\ job.anns[job.i].id = a

\* C17: a run of send_announcements makes no send, to the group or to a
\* user, for an announcement that was marked sent when the run began.
SentIsNotSentAgain ==
    \A k \in 1..Len(outbox) :
        outbox[k].job = "send_announcements" =>
            outbox[k].ann \notin job.sent_before

\* C17's case: a run that began with one announcement marked sent and one
\* unsent has sent the unsent one to the group and gone on.
RunPassedOverSent ==
    /\ job.sent_before # {}
    /\ Len(outbox) >= 2
    /\ outbox[1].to = "group" /\ outbox[1].ok
    /\ \E a \in job.sent_before : a > outbox[1].ann

\* C20: once the group send for an announcement has succeeded, every user
\* fetched for it gets one send in the order fetched, whichever of these
\* sends fail, and after the last of them the announcement is marked sent.
FailedUserSendIsSkipped ==
    \A a \in DOMAIN job.fanout :
        LET fetched == job.fanout[a].users
            tried == UserSendsOf(a)
        IN /\ Len(tried) = IF FanningOut(a) THEN job.j - 1 ELSE Len(fetched)
           /\ \A k \in 1..Len(tried) :
                  tried[k].chat = fetched[k].telegram_id
           /\ ~FanningOut(a) => announcements[a].sent_at # NULL

\* C20's case: the run is over, a send to a user failed, a send to another
\* user was made after it, and the announcement is marked sent.
MarkedSentAfterFailedSend ==
    /\ job.pc = "idle"
    /\ \E k, m \in 1..Len(outbox) :
           /\ k < m
           /\ outbox[k].to = "user" /\ ~outbox[k].ok
           /\ outbox[m].to = "user" /\ outbox[m].ann = outbox[k].ann
           /\ outbox[k].ann \in DOMAIN job.fanout
           /\ announcements[outbox[k].ann].sent_at # NULL

\* The queue: one user has registered, the dashboard creates up to MaxOlder
\* announcements more than the twenty the list holds, the job keeps being
\* started by the scheduler, and no send fails.
MaxOlder == 1

NextQueue ==
    \/ /\ Len(announcements) < 20 + MaxOlder
       /\ Request("create_announcement", 0, NoText, 0,
                  create_announcement(Store, "m"))
    \/ send_announcements
    \/ group_send(TRUE)
    \/ user_send(TRUE)

SpecQueue ==
    /\ InitWith(<<101>>)
    /\ [][NextQueue]_vars
    /\ WF_vars(send_announcements)
    /\ WF_vars(group_send(TRUE))
    /\ WF_vars(user_send(TRUE))

AllMarkedSent ==
    \A a \in 1..Len(announcements) : announcements[a].sent_at # NULL

\* C18: every announcement created is eventually marked sent, however many
\* there are: whatever has been created, a time comes at which all of it is
\* marked sent.
EveryAnnouncementIsMarkedSent == []<>AllMarkedSent

\* The crowd: ninety-nine users have registered and up to MaxBeyond more
\* than the hundred a request for the users returns register; the dashboard
\* creates an announcement and the job runs; no send to a user fails.
MaxBeyond == 1

CrowdIds == [i \in 1..99 |-> 1000 + i]

NextCrowd ==
    \/ /\ Len(users) < 100 + MaxBeyond
       /\ POST_users(1000 + Len(users) + 1)
    \/ POST_announcements
    \/ send_announcements
    \/ \E ok \in BOOLEAN : group_send(ok)
    \/ user_send(TRUE)

SpecCrowd == InitWith(CrowdIds) /\ [][NextCrowd]_vars

\* C19: once the group send for an announcement has succeeded and the run
\* has gone past its users, every user who was in the store when the users
\* were fetched has been sent the announcement exactly once in that run.
EveryUserIsSentOnce ==
    \A a \in DOMAIN job.fanout :
        ~FanningOut(a) =>
            \A i \in 1..job.fanout[a].known :
                Cardinality({k \in 1..Len(outbox) :
                                /\ outbox[k].ann = a
                                /\ outbox[k].to = "user"
                                /\ outbox[k].chat = users[i].telegram_id}) = 1

-----------------------------------------------------------------------------
(* User status.                                                            *)

\* PUT /api/users/{user_id}/status?status=...: the row is found by its id.
update_user_status(st, user_id, status) ==
    IF user_id \notin 1..Len(st.users)
    THEN {Outcome(404, st)}
    ELSE {Outcome(200, [st EXCEPT !.users[user_id].status = status])}

PUT_users_status(user_id, status) ==
    Request("update_user_status", user_id, NoText, 0,
            update_user_status(Store, user_id, status))

\* The status parameter is any string; the dashboard offers the first three.
StatusTexts == {"active", "admin", "banned", "owner"}

\* Users register and their status is set.
NextStatus ==
    \/ \E t \in TelegramIds : POST_users(t)
    \/ \E i \in 1..3, s \in StatusTexts : PUT_users_status(i, s)

SpecStatus == Init /\ [][NextStatus]_vars

\* C21: the status of every user is active, admin or banned.
StatusIsOneOfThree ==
    \A i \in 1..Len(users) : users[i].status \in {"active", "admin", "banned"}

-----------------------------------------------------------------------------
(* Deleting a log.                                                         *)

\* C22: after a delete request that succeeded for a user and a date, the user
\* has no log left on that date, and the user's total_pages is lower by the
\* pages that were recorded for that date.
DeleteClearsTheDate ==
    [][(/\ api_calls' # <<>>
        /\ api_calls'[1].op = "delete_reading_log"
        /\ api_calls'[1].status = 200) =>
        LET c == api_calls'[1]
            user == UserByTelegram(Store, c.key)
            log_date == strptime(c.date, "%Y-%m-%d")
            on_date == {l \in LogsOfUser(user) : l.date = log_date}
        IN /\ \A l \in BagToSet(logs') :
                  ~(l.user_id = user /\ l.date = log_date)
           /\ users'[user].total_pages =
                  users[user].total_pages - SumPages(on_date, logs)]_vars

-----------------------------------------------------------------------------
(* The aggregations of the dashboard.  Each one runs queries and returns;   *)
(* the outcome carries the store the session leaves behind.                 *)

RECURSIVE SumOf(_)
SumOf(s) == IF s = <<>> THEN 0 ELSE Head(s) + SumOf(Tail(s))

\* A mutant: the call clears away the logs older than a week.
get_stats_prunes(st, now, now_minute) ==
    {[st |-> [st EXCEPT !.logs =
                 [l \in {x \in BagToSet(st.logs) : x.date >= now - 7}
                  |-> CopiesIn(l, st.logs)]],
      resp |-> [total_users |-> Len(st.users)]]}

\* GET /api/stats.  A log's date is a datetime at 00:00 and is compared with
\* the time now less seven days.  avg_pages_per_day is pages_last_week / 7.0,
\* carried as the dividend; active_today and weekly_growth are read from
\* last_active and join_date, which the rows here do not carry.
get_stats(st, now, now_minute) ==
    LET last_week == {l \in BagToSet(st.logs) :
                         l.date * 1440 >= (now - 7) * 1440 + now_minute}
        pages_last_week == SumPages(last_week, st.logs)
    IN {[st |-> st,
         resp |-> [total_users |-> Len(st.users),
                   total_pages |->
                       SumOf([i \in 1..Len(st.users) |->
                                 st.users[i].total_pages]),
                   books_completed |->
                       SumOf([i \in 1..Len(st.users) |->
                                 st.users[i].books_completed]),
                   avg_pages_per_day |->
                       IF pages_last_week # 0 THEN pages_last_week ELSE 0]]}

\* GET /api/report/month: the weekly report's query over the calendar month,
\* without the winner flag.
monthly_report(st, now) ==
    LET f == [on |-> TRUE, w |-> get_month_range(now)]
        groups == {l.user_id : l \in Joined(st, f)}
    IN {[st |-> st,
         resp |-> [idx \in 1..Len(s) |->
                     [rank |-> idx,
                      name |-> st.users[s[idx]].first_name,
                      pages |-> GroupSum(st, f, s[idx])]]]
        : s \in Ordered(st, f, groups)}

\* day.strftime("%a")
DayNames == <<"Mon", "Tue", "Wed", "Thu", "Fri", "Sat", "Sun">>

\* GET /api/activity/weekly: the seven days that end today, each with the
\* pages logged on it and the number of users who logged.
weekly_activity(st, now) ==
    LET start_date == now - 6
        OnDay(day) == {l \in BagToSet(st.logs) : l.date = day}
    IN {[st |-> st,
         resp |-> [i \in 1..7 |->
                     LET day == start_date + (i - 1)
                     IN [Day |-> DayNames[weekday(day) + 1],
                         Pages |-> SumPages(OnDay(day), st.logs),
                         Users |-> Cardinality({l.user_id : l \in OnDay(day)})]]]}

\* An aggregation is asked for: its response is the last one on record.
Aggregate(op, outs) ==
    /\ \E out \in outs :
           /\ Commit(out)
           /\ dash' = [op |-> op, resp |-> out.resp]
    /\ api_calls' = <<Call(op, 0, NoText, 0, 200)>>
    /\ board' = NoBoard
    /\ report' = NoReport
    /\ UNCHANGED <<today, cmd, reply, keyboards, probe, minute, due, diary,
                   job, outbox, delivered, parked, inflight>>

GET_stats == Aggregate("get_stats", get_stats(Store, today, minute))

GET_report_month == Aggregate("monthly_report", monthly_report(Store, today))

GET_activity_weekly ==
    Aggregate("weekly_activity", weekly_activity(Store, today))

\* A log is created; the responses on record are of the store before it.
POST_reading_logs_then_ask(date, pages, telegram_id) ==
    /\ BagCardinality(logs) < MaxLogs + 1
    /\ \E out \in create_reading_log(Store, date, pages, telegram_id) :
           /\ Commit(out)
           /\ api_calls' = <<Call("create_reading_log", telegram_id, date,
                                  pages, out.status)>>
    /\ board' = NoBoard
    /\ report' = NoReport
    /\ dash' = NoDash
    /\ UNCHANGED <<today, cmd, reply, keyboards, probe, minute, due, diary,
                   job, outbox, delivered, parked, inflight>>

\* Two users log pages on days before and in the last seven days, in
\* December and in January, and the dashboard and the bot ask for every
\* aggregation.
AggregateDates ==
    {Iso(2025, 12, 30), Iso(2025, 12, 31), Iso(2026, 1, 1), Iso(2026, 1, 7)}

NextAggregate ==
    \/ \E d \in AggregateDates, p \in RankPages, t \in TelegramIds :
           POST_reading_logs_then_ask(d, p, t)
    \/ GET_stats
    \/ GET_report_month
    \/ GET_activity_weekly
    \/ GET_report_week
    \/ \E period \in {"week", "month"} : GET_leaderboard(period, 10)

SpecAggregate == InitWith(<<101, 102>>) /\ [][NextAggregate]_vars

AggregationOps ==
    {"get_stats", "leaderboard", "weekly_report", "monthly_report",
     "weekly_activity"}

\* C23: get_stats, leaderboard, weekly_report, monthly_report and
\* weekly_activity leave every user, reading log and announcement as it was
\* before the call.
AggregationsLeaveStore ==
    [][(api_calls' # <<>> /\ api_calls'[1].op \in AggregationOps) =>
          UNCHANGED store]_vars

\* C23's case: the stats were asked for while a user has a log older than a
\* week and one of today, and they count the pages of both.
StatsOverOldAndNewLogs ==
    /\ api_calls # <<>> /\ LastCall.op = "get_stats"
    /\ dash.op = "get_stats"
    /\ dash.resp.total_pages = 320 /\ dash.resp.avg_pages_per_day = 200
    /\ \E l \in BagToSet(logs) : l.date < today - 7

-----------------------------------------------------------------------------
(* Sending again.  The bot's process stops in the middle of a run, or a    *)
(* mark-sent request is not served; the scheduler of the bot, started      *)
(* again, runs the job on its next tick.                                   *)

MaxResends == 1

\* No send has arrived more than MaxResends times: a further stop or failed
\* request is within the bound.
Resendable ==
    \A e \in BagToSet(delivered) : CopiesIn(e, delivered) <= MaxResends

\* The process stops at an await point of the run.
dispatcher_stops ==
    /\ job.pc \in {"group", "user"}
    /\ Resendable
    /\ job' = Ended
    /\ UNCHANGED <<announcements, outbox, delivered>>
    /\ JobStep(<<>>)

NextResend ==
    \/ /\ Len(announcements) < MaxAnnouncements + 1
       /\ Request("create_announcement", 0, NoText, 0,
                  create_announcement(Store, "m"))
    \/ send_announcements
    \/ \E ok \in BOOLEAN, mark \in MarkResults :
           /\ mark # "served" => Resendable
           /\ group_send_then(ok, mark)
           /\ Tally
    \/ \E ok \in BOOLEAN, mark \in MarkResults :
           /\ mark # "served" => Resendable
           /\ user_send_then(ok, mark)
           /\ Tally
    \/ dispatcher_stops

SpecResend == InitWith(<<101>>) /\ [][NextResend]_vars

Unsent == {a \in 1..Len(announcements) : announcements[a].sent_at = NULL}

\* The step requests mark-sent for announcement a and is served.
MarkServed(a) ==
    \E k \in 1..Len(api_calls') :
        /\ api_calls'[k].op = "mark_announcement_sent"
        /\ api_calls'[k].key = a
        /\ api_calls'[k].status = 200

\* The sends of the running or last run for announcement a go to the group,
\* where the send returned, and then to every user the run fetched, in the
\* order fetched.
SentInFull(a) ==
    /\ a \in DOMAIN job.fanout
    /\ \E k \in 1..Len(outbox) : outbox[k] = Send(a, "group", group_id, TRUE)
    /\ LET to_users == UserSendsOf(a)
           fetched == job.fanout[a].users
       IN /\ Len(to_users) = Len(fetched)
          /\ \A k \in 1..Len(fetched) :
                 to_users[k].chat = fetched[k].telegram_id

\* C24: an announcement stays unsent through every step of the dispatcher
\* that is not a served mark-sent request for it, so also when the process
\* stops or the request is not served after its sends; a run that starts
\* takes the newest unsent announcement whatever has arrived before, and when
\* it requests mark-sent it has sent the announcement to the group and to
\* every user it fetched; an announcement marked sent has reached the group
\* at least once.
UnmarkedIsSentAgainInFull ==
    /\ [][\A a \in Unsent : a \in Unsent' \/ MarkServed(a)]_vars
    /\ [][(job.pc = "idle" /\ job'.pc = "group") =>
              /\ job'.anns[job'.i].id \in Unsent
              /\ \A a \in Unsent : a <= job'.anns[job'.i].id]_vars
    /\ [](\A k \in 1..Len(api_calls) :
              api_calls[k].op = "mark_announcement_sent" =>
                  SentInFull(api_calls[k].key))
    /\ [](\A a \in 1..Len(announcements) :
              announcements[a].sent_at # NULL =>
                  CopiesIn([ann |-> a, chat |-> group_id], delivered) >= 1)

\* C24's case: a user has received one announcement twice, the second time
\* in a run that sent it in full and marked it sent.
ReceivedTwice ==
    \E a \in 1..Len(announcements) :
        /\ announcements[a].sent_at # NULL
        /\ SentInFull(a)
        /\ CopiesIn([ann |-> a, chat |-> 101], delivered) = 2

-----------------------------------------------------------------------------
(* Two runs at once.  send_announcements is a coroutine; a second run that *)
(* is started while the first waits in a send shares the event loop with   *)
(* it, and the loop goes from one to the other at their await points.      *)

\* The event loop leaves the run it has at an await point and takes up the
\* other one, which may not have started.
switch_run ==
    /\ job.pc # "idle" \/ parked.job.pc # "idle"
    /\ job' = parked.job
    /\ outbox' = parked.outbox
    /\ parked' = [job |-> job, outbox |-> outbox]
    /\ api_calls' = <<>>
    /\ cmd' = NoCmd
    /\ reply' = ""
    /\ board' = NoBoard
    /\ UNCHANGED <<users, logs, announcements, today, keyboards, probe,
                   minute, report, due, diary, dash, delivered, inflight>>

\* Announcements are created and the job is started, a second time too
\* while a run waits; every send and every request succeeds.
NextOverlap ==
    \/ /\ Len(announcements) < MaxAnnouncements + 1
       /\ Request("create_announcement", 0, NoText, 0,
                  create_announcement(Store, "m"))
    \/ send_announcements
    \/ group_send_then(TRUE, "served") /\ Tally
    \/ user_send_then(TRUE, "served") /\ Tally
    \/ switch_run

SpecOverlap == InitWith(<<101, 102>>) /\ [][NextOverlap]_vars

\* The positions of list anns after position k that the list shows unsent.
ListedUnsentAfter(anns, k) ==
    {m \in (k + 1)..Len(anns) : anns[m].sent_at = NULL}

\* C25: nothing in the job keeps a second run from starting while another
\* waits: a run that starts takes the first announcement that the store
\* shows unsent at that moment, and from then on it sends every announcement
\* that its own list shows unsent, one after another, also those that the
\* other run has marked sent in the meantime.
EachRunSendsWhatItListed ==
    /\ [][(parked' = parked /\ job.pc = "idle" /\ job'.pc = "group") =>
              /\ job'.anns = list_announcements(Store)
              /\ job'.anns[job'.i].sent_at = NULL
              /\ ListedUnsentAfter(job'.anns, 0) \cap 1..(job'.i - 1) = {}]_vars
    /\ [][(parked' = parked /\ job.pc \in {"group", "user"}) =>
              IF job'.pc = "idle"
              THEN ListedUnsentAfter(job.anns, job.i) = {}
              ELSE /\ job'.anns = job.anns
                   /\ job'.anns[job'.i].sent_at = NULL
                   /\ ListedUnsentAfter(job.anns, job.i)
                          \cap 1..(job'.i - 1) = {}]_vars

\* C25's case: both runs are over, every send returned and every mark-sent
\* was served, and a user has received one announcement twice.
TwiceWithoutFailure ==
    /\ job.pc = "idle" /\ parked.job.pc = "idle"
    /\ \A k \in 1..Len(outbox) : outbox[k].ok
    /\ \A k \in 1..Len(parked.outbox) : parked.outbox[k].ok
    /\ \E a \in 1..Len(announcements) :
           /\ announcements[a].sent_at # NULL
           /\ a \in DOMAIN job.fanout /\ a \in DOMAIN parked.job.fanout
           /\ CopiesIn([ann |-> a, chat |-> 101], delivered) = 2

-----------------------------------------------------------------------------
(* Log requests in separate sessions.  A handler first loads the user row  *)
(* (and, to edit, the log row) into its session, computes the new total    *)
(* from the loaded value, and at db.commit() writes the row and the total. *)
(* Handlers of separate worker processes stand between their loads and     *)
(* their commits at the same time.                                         *)

MaxSessions == 2
NoRow == [user_id |-> 0, date |-> 0, pages |-> 0]

\* A mutant: the commit adds the adjustment to the total that is stored.
commit_session_on_stored(st, s) ==
    IF s.op = "create_reading_log"
    THEN [st EXCEPT
            !.users[s.user].total_pages = @ + s.pages,
            !.logs = @ (+) SetToBag({[user_id |-> s.user, date |-> s.date,
                                      pages |-> s.pages]})]
    ELSE [st EXCEPT
            !.users[s.user].total_pages = @ - s.log.pages + s.pages,
            !.logs = (@ (-) SetToBag({s.log}))
                     (+) SetToBag({[s.log EXCEPT !.pages = s.pages]})]

\* db.commit() of session s: the UPDATE of the user row sets total_pages to
\* the value computed from s.total, the total the session loaded.
commit_session(st, s) ==
    IF s.op = "create_reading_log"
    THEN [st EXCEPT
            !.users[s.user].total_pages = s.total + s.pages,
            !.logs = @ (+) SetToBag({[user_id |-> s.user, date |-> s.date,
                                      pages |-> s.pages]})]
    ELSE [st EXCEPT
            !.users[s.user].total_pages = s.total - s.log.pages + s.pages,
            !.logs = (@ (-) SetToBag({s.log}))
                     (+) SetToBag({[s.log EXCEPT !.pages = s.pages]})]

\* The queries of create_reading_log or update_reading_log.  A request that
\* finds no user or no log is answered at once; any other stands before its
\* commit.  One edit stands there at a time, so that the row it loaded is
\* still the stored one when it commits, and the requests that stand there
\* differ.
LoadsOf(op, date, pages, telegram_id) ==
    LET user == UserByTelegram(Store, telegram_id)
        log_date == strptime(date, "%Y-%m-%d")
        rows == IF op = "create_reading_log" THEN {NoRow}
                ELSE LogsOn(Store, user, log_date)
    IN IF user = 0 \/ log_date = NoDate THEN {}
       ELSE {[op |-> op, key |-> telegram_id, user |-> user,
              text |-> date, date |-> log_date, pages |-> pages,
              total |-> users[user].total_pages, log |-> row] : row \in rows}

load_log_request(op, date, pages, telegram_id) ==
    /\ Cardinality(inflight) < MaxSessions
    /\ BagCardinality(logs) + Cardinality(inflight) < MaxLogs + 1
    /\ op = "update_reading_log" =>
           \A s \in inflight : s.op # "update_reading_log"
    /\ IF LoadsOf(op, date, pages, telegram_id) = {}
       THEN /\ Request(op, telegram_id, date, pages,
                       IF op = "create_reading_log"
                       THEN create_reading_log(Store, date, pages, telegram_id)
                       ELSE update_reading_log(Store, date, pages,
                                               telegram_id))
       ELSE /\ \E s \in LoadsOf(op, date, pages, telegram_id) \ inflight :
                  inflight' = inflight \cup {s}
            /\ api_calls' = <<>>
            /\ board' = NoBoard
            /\ UNCHANGED <<users, logs, announcements, today, cmd, reply,
                           keyboards, probe, minute, report, due, diary, job,
                           outbox, dash, delivered, parked>>

commit_log_request(s) ==
    /\ s \in inflight
    /\ Commit(Outcome(200, commit_session(Store, s)))
    /\ inflight' = inflight \ {s}
    /\ api_calls' = <<Call(s.op, s.key, s.text, s.pages, 200)>>
    /\ board' = NoBoard
    /\ UNCHANGED <<today, cmd, reply, keyboards, probe, minute, report, due,
                   diary, job, outbox, dash, delivered, parked>>

SessionPages == {120, 200}
SessionDates == {Iso(2026, 1, 6), Iso(2026, 1, 7)}

\* Two users create and edit logs through requests that load and commit
\* in any order.
NextSessions ==
    \/ \E op \in {"create_reading_log", "update_reading_log"},
          d \in SessionDates, p \in SessionPages, t \in TelegramIds :
           load_log_request(op, d, p, t)
    \/ \E s \in inflight : commit_log_request(s)

SpecSessions == InitWith(<<101, 102>>) /\ [][NextSessions]_vars

TotalIsSum(i) == users[i].total_pages = SumPages(LogsOfUser(i), logs)

-----------------------------------------------------------------------------
(* The order of a run.                                                     *)

\* The step is one of the job and requests mark-sent for announcement a.
JobMarks(a) ==
    /\ job.pc \in {"group", "user"} /\ job' # job
    /\ \E k \in 1..Len(api_calls') :
           /\ api_calls'[k].op = "mark_announcement_sent"
           /\ api_calls'[k].key = a

\* C27: a step of the job requests mark-sent for an announcement only when
\* the run's send to the group for it has returned and the run has made one
\* send for every user it fetched; and the sends of a run go announcement by
\* announcement from the newest to the oldest, for each one first to the
\* group and then to the users.
MarkedAfterFanOutNewestFirst ==
    /\ [][\A a \in 1..Len(announcements) : JobMarks(a) => SentInFull(a)']_vars
    /\ [](\A k, l \in 1..Len(outbox) :
              k < l =>
                  \/ outbox[k].ann > outbox[l].ann
                  \/ /\ outbox[k].ann = outbox[l].ann
                     /\ outbox[l].to = "user")

\* C27's case: a run has sent two announcements to the group and to a user
\* and has just marked the older one, the second in the list.
TwoMarkedInListOrder ==
    /\ api_calls # <<>>
    /\ LastCall.op = "mark_announcement_sent" /\ LastCall.key = 1
    /\ job.pc = "idle"
    /\ SentInFull(1) /\ SentInFull(2)
    /\ UserSendsOf(1) # <<>> /\ UserSendsOf(2) # <<>>
    /\ outbox[1].ann = 2

\* The last send of the running or last run is a send to the group for
\* announcement a that raised.
GroupSendFailed(a) ==
    /\ outbox # <<>>
    /\ outbox[Len(outbox)] = Send(a, "group", group_id, FALSE)

-----------------------------------------------------------------------------
(* Deleting through the bot.                                               *)

\* The step sends a DELETE request for a reading log.
SendsDelete ==
    \E k \in 1..Len(api_calls') : api_calls'[k].op = "delete_reading_log"

\* C29: /delete sends no request and changes no user, log or announcement,
\* and with one argument that is a date it shows the prompt whose confirm
\* button carries that date; a DELETE request is sent only by a press of the
\* confirm button of a prompt that is shown, for the date the button
\* carries; a press of cancel sends no request and changes nothing stored;
\* and no log goes away in any other step.
DeleteOnlyAfterConfirm ==
    /\ [][cmd'.name = "delete" =>
              /\ api_calls' = <<>>
              /\ UNCHANGED store
              /\ (Len(cmd'.args) = 1 /\ parse_date(cmd'.args[1]) # NoDate) =>
                     /\ reply' = "delete_confirm_prompt"
                     /\ strftime(parse_date(cmd'.args[1]), "%Y-%m-%d")
                            \in keyboards']_vars
    /\ [][SendsDelete =>
              /\ cmd'.name = "button_confirm"
              /\ cmd'.args[1] \in keyboards
              /\ api_calls' = <<Call("delete_reading_log", cmd'.user,
                                     cmd'.args[1], 0,
                                     api_calls'[1].status)>>]_vars
    /\ [][cmd'.name = "button_cancel" =>
              api_calls' = <<>> /\ UNCHANGED store]_vars
    /\ [][BagCardinality(logs') < BagCardinality(logs) =>
              cmd'.name = "button_confirm"]_vars

\* C29's case: the confirm button of the prompt for yesterday was pressed and
\* the log of that day is gone, the total with it.
ConfirmedDeleteDone ==
    /\ cmd.name = "button_confirm"
    /\ api_calls # <<>> /\ LastCall.status = 200
    /\ LastCall.date = strftime(BaseDay - 1, "%Y-%m-%d")
    /\ logs = EmptyBag
    /\ Len(users) = 1 /\ users[1].total_pages = 0

-----------------------------------------------------------------------------
(* /leaderboard.                                                           *)

\* leaderboard_command: the period is the first argument, "hafta" when there
\* is none; an empty list is answered like an error.
leaderboard_command(telegram_id, args) ==
    LET period == IF args # <<>> THEN args[1] ELSE "hafta"
    IN /\ cmd' = [name |-> "leaderboard", user |-> telegram_id, args |-> args]
       /\ \E out \in leaderboard(Store, period, 10, today) :
              /\ board' = [period |-> period, limit |-> 10,
                           rows |-> out.rows, resp |-> out.resp]
              /\ reply' = IF out.resp = <<>> THEN "leaderboard_error"
                          ELSE "leaderboard"
       /\ api_calls' = <<Call("leaderboard", 10, NoText, 0, 200)>>
       /\ UNCHANGED <<users, logs, announcements, today, keyboards, probe,
                      rest>>

PeriodArgs ==
    {<<>>, <<"week">>, <<"month">>, <<"all">>, <<"hafta">>, <<"Week">>}

\* Days in the week and the month of BaseDay, in its month only, and in
\* neither.
BoardDates == {Iso(2025, 12, 31), Iso(2026, 1, 1), Iso(2026, 1, 7)}

\* Two users log pages, one of them sends the command, and the API is asked
\* directly.
NextBoard ==
    \/ \E d \in BoardDates, p \in RankPages, t \in TelegramIds :
           /\ BagCardinality(logs) < MaxLogs + 1
           /\ Request("create_reading_log", t, d, p,
                      create_reading_log(Store, d, p, t))
    \/ \E t \in BotUsers, a \in PeriodArgs : leaderboard_command(t, a)
    \/ GET_leaderboard("weekly", 10)

SpecBoard == InitWith(<<101, 102>>) /\ [][NextBoard]_vars

\* The logs of a user that a leaderboard of this period counts.
LogsCountedFor(user_id, period) ==
    IF period = "week" THEN LogsInPeriod(user_id, "week")
    ELSE IF period = "month" THEN LogsInPeriod(user_id, "month")
    ELSE LogsOfUser(user_id)

\* C30: the leaderboard counts the logs of the Saturday-Friday week when its
\* period is exactly "week", those of the calendar month when it is exactly
\* "month", and every log for any other period; /leaderboard asks for the
\* period of its first argument and for "hafta" without one, which counts
\* every log.
WindowOnlyForWeekAndMonth ==
    /\ [](board.period # NoBoard.period \/ board.limit # NoBoard.limit =>
              /\ Len(board.rows) = Len(board.resp)
              /\ \A i \in 1..Len(board.resp) :
                     board.resp[i].pages =
                         SumPages(LogsCountedFor(board.rows[i], board.period),
                                  logs)
              /\ {board.rows[i] : i \in 1..Len(board.rows)} =
                     {u \in 1..Len(users) :
                         LogsCountedFor(u, board.period) # {}})
    /\ [][cmd'.name = "leaderboard" /\ cmd' # cmd =>
              /\ board'.limit = 10
              /\ board'.period = IF cmd'.args = <<>> THEN "hafta"
                                 ELSE cmd'.args[1]]_vars

\* C30's case: /leaderboard without an argument was answered with a list
\* that counts a log dated before the week.
HaftaRanksAllTime ==
    /\ cmd.name = "leaderboard" /\ cmd.args = <<>>
    /\ board.period = "hafta"
    /\ \E i \in 1..Len(board.resp) :
           board.resp[i].pages >
               SumPages(LogsInPeriod(board.rows[i], "week"), logs)

====
